---- MODULE Spec2Model ----
(***************************************************************************)
(* Model of src/main.py of tradingview-telegram-service: the /send-signal  *)
(* dispatcher (send_signal), the callback-query handler (button_handler),  *)
(* the in-memory session dictionary user_states and the messages the bot   *)
(* has put on the Telegram side.                                           *)
(*                                                                         *)
(* Coroutines run on one asyncio event loop: code between two awaits is    *)
(* atomic, and coroutines interleave at awaits.  Every action below is     *)
(* "one awaited call completes (with its outcome) and the coroutine runs   *)
(* on, synchronously, up to the point where it issues its next await".     *)
(* Calls to the Telegram API and to the chart/news services are external:  *)
(* each may succeed or fail, chosen nondeterministically.                  *)
(*                                                                         *)
(* The specifications share the actions:                                   *)
(*   Spec          signals sent to single chats and button presses, one    *)
(*                 send_signal and one button_handler running at a time;   *)
(*   SpecDispatch  send_signal alone, one request at a time, broadcasts to *)
(*                 subscribers included;                                   *)
(*   SpecDirect    send_signal alone, to single chats, two requests served *)
(*                 concurrently, signals of every shape;                   *)
(*   SpecStore     signals sent to single chats, two requests served       *)
(*                 concurrently, and technical_analysis and                *)
(*                 back_to_signal presses;                                 *)
(*   SpecRace      signals sent to single chats and button presses, two    *)
(*                 send_signal and two button_handler running              *)
(*                 concurrently;                                           *)
(*   SpecTaps      one signal, the technical_analysis and market_sentiment *)
(*                 presses on signal messages served concurrently, every   *)
(*                 awaited call completing;                                *)
(*   SpecRR        POST /calculate-rr alone.                               *)
(* user_states lives in the memory of the process, the messages live in    *)
(* the chats: when the process starts, user_states is empty while the      *)
(* chats may hold the messages, buttons included, of an earlier run.       *)
(***************************************************************************)
EXTENDS Integers, Sequences, FiniteSets, TLC

(***************************************************************************)
(* Bounds                                                                  *)
(***************************************************************************)
\* at most this many messages exist on the Telegram side; a send that would
\* exceed it can only fail
MaxMsgs == 3
\* longest subscriber list get_subscribers returns
MaxSubs == 2
\* number of requests (POST /send-signal, POST /webhook) the process serves
MaxRequests == 3
\* number of external calls (Telegram, chart, news, subscribers) that fail
MaxFaults == 1

(***************************************************************************)
(* Python dictionaries: a function whose domain is the set of present keys *)
(***************************************************************************)
EmptyDict == [k \in {} |-> ""]

DictGet(d, k, default) == IF k \in DOMAIN d THEN d[k] ELSE default

DictSet(d, k, v) == [c \in (DOMAIN d) \cup {k} |-> IF c = k THEN v ELSE d[c]]

(***************************************************************************)
(* Chat identifiers.  A raw chat id is a sequence of tokens; " " is a      *)
(* whitespace token.  str(x).strip() drops whitespace at both ends.        *)
(***************************************************************************)
RECURSIVE LStrip(_)
LStrip(s) == IF s # <<>> /\ Head(s) = " " THEN LStrip(Tail(s)) ELSE s

RECURSIVE RStrip(_)
RStrip(s) == IF s # <<>> /\ s[Len(s)] = " " THEN RStrip(SubSeq(s, 1, Len(s) - 1)) ELSE s

RECURSIVE Join(_)
Join(s) == IF s = <<>> THEN "" ELSE Head(s) \o Join(Tail(s))

\* str(chat_id).strip()
Strip(raw) == Join(RStrip(LStrip(raw)))

\* the chat ids requests and subscriber rows carry
RawChats == {<<"1">>, <<" ", "1">>, <<"2">>}

\* chat_id == "all" is tested on the raw value, before any strip
ALL == <<"all">>

Chats == {Strip(r) : r \in RawChats}

(***************************************************************************)
(* Texts                                                                   *)
(***************************************************************************)
LOADING_TA == "Generating technical analysis..."
LOADING_MS == "Analyzing market sentiment..."
NO_PAIR_INFO == "Sorry, I couldn't find the trading pair information. Please try again with a new signal."
WENT_WRONG == "Sorry, something went wrong. Please try again with a new signal."
TA_FAILED == "Sorry, I couldn't generate the technical analysis chart. Please try again later."
MS_FAILED == "Sorry, I couldn't analyze the market sentiment. Please try again later."
FORMAT_ERROR == "Error formatting signal message"

TaHeader(us) == "Technical Analysis for " \o us["instrument"] \o " (" \o us["timeframe"] \o ")"

SentimentMessage(us, news) ==
    "Market Sentiment Analysis for " \o us["instrument"] \o " | " \o news
        \o " | Based on recent market news and events."

PhotoText(img) == "photo:" \o img

(***************************************************************************)
(* Inline keyboards                                                        *)
(***************************************************************************)
\* [[Technical Analysis, Market Sentiment]]
KB_MAIN == "main"
\* [[<< Back to Signal]]
KB_BACK == "back"
\* reply_markup=None
KB_NONE == "none"

\* callback data of a button no branch of button_handler knows
OTHER_DATA == "calendar"

(***************************************************************************)
(* format_signal_message                                                   *)
(***************************************************************************)
\* a value that is not a string (str methods raise on it)
NONSTR == "<non-string>"

LOWERCASE == "abcdefghijklmnopqrstuvwxyz"
UPPERCASE == "ABCDEFGHIJKLMNOPQRSTUVWXYZ"

\* the characters of from, each with its counterpart in to
Pairing(from, to) ==
    [c \in {SubSeq(from, i, i) : i \in 1..Len(from)} |->
        LET i == CHOOSE j \in 1..Len(from) : SubSeq(from, j, j) = c
        IN  SubSeq(to, i, i)]

TO_LOWER == Pairing(UPPERCASE, LOWERCASE)
TO_UPPER == Pairing(LOWERCASE, UPPERCASE)

\* the character c, or its counterpart when table has one
Translate(c, table) == IF c \in DOMAIN table THEN table[c] ELSE c

RECURSIVE MapChars(_, _)
MapChars(s, table) ==
    IF s = "" THEN ""
    ELSE Translate(SubSeq(s, 1, 1), table) \o MapChars(SubSeq(s, 2, Len(s)), table)

\* str.lower() and str.upper(), character by character (the texts here are
\* ASCII)
Lower(s) == MapChars(s, TO_LOWER)

Upper(s) == MapChars(s, TO_UPPER)

format_signal_message(signal_data) ==
    IF "formatted_message" \in DOMAIN signal_data
    THEN signal_data["formatted_message"]
    ELSE IF DictGet(signal_data, "direction", "") = NONSTR
    THEN FORMAT_ERROR
    ELSE LET direction_emoji ==
                 IF Lower(DictGet(signal_data, "direction", "")) = "buy"
                 THEN "(up)" ELSE "(down)"
         IN  "New Trading Signal"
             \o " | Instrument: " \o DictGet(signal_data, "instrument", "Unknown")
             \o " | Action: " \o Upper(DictGet(signal_data, "direction", "Unknown"))
             \o " " \o direction_emoji
             \o " | Entry Price: " \o DictGet(signal_data, "entry_price", "Unknown")
             \o " | Stop Loss: " \o DictGet(signal_data, "stop_loss", "Unknown")
             \o " | Take Profit: " \o DictGet(signal_data, "take_profit", "Unknown")
             \o " | Timeframe: " \o DictGet(signal_data, "timeframe", "Unknown")
             \o " | Strategy: " \o DictGet(signal_data, "strategy", "Unknown")
             \o " | Risk Management"
             \o " | AI Verdict: " \o DictGet(signal_data, "ai_verdict", "AI verdict not available.")

(***************************************************************************)
(* Inputs of /send-signal                                                  *)
(***************************************************************************)
SIG_FULL ==
    [instrument |-> "EURUSD", direction |-> "buy", entry_price |-> "1.1000",
     stop_loss |-> "1.0950", take_profit |-> "1.1050", timeframe |-> "1h",
     strategy |-> "Breakout", ai_verdict |-> "Strong setup"]

SIG_FORMATTED ==
    [formatted_message |-> "BTCUSD SELL @ 64000", instrument |-> "BTCUSD",
     timeframe |-> "4h"]

SIG_EMPTY_FORMATTED ==
    [formatted_message |-> "", instrument |-> "EURUSD", timeframe |-> "1h"]

SIG_NO_TIMEFRAME ==
    [instrument |-> "EURUSD", direction |-> "sell", entry_price |-> "1.1000"]

\* entry price and a stop loss, no take profit
SIG_ONE_LEVEL ==
    [instrument |-> "EURUSD", direction |-> "buy", entry_price |-> "1.1000",
     stop_loss |-> "1.0950", timeframe |-> "1h",
     strategy |-> "Breakout", ai_verdict |-> "Strong setup"]

\* the signals of the specifications with button presses
SignalInputs == {SIG_FULL, SIG_FORMATTED, SIG_NO_TIMEFRAME}

\* the signals of the specification of send_signal to single chats
DispatchInputs == SignalInputs \cup {SIG_EMPTY_FORMATTED, SIG_ONE_LEVEL}

RECURSIVE SeqsUpTo(_, _)
SeqsUpTo(S, n) ==
    IF n = 0 THEN {<<>>}
    ELSE LET shorter == SeqsUpTo(S, n - 1)
         IN  shorter \cup {Append(s, x) : s \in {t \in shorter : Len(t) = n - 1}, x \in S}

\* what get_subscribers may return: rows reduced to their chat_id
SubscriberLists == SeqsUpTo(RawChats, MaxSubs)

\* what get_chart_image / get_news_analysis may return; "" stands for every
\* falsy result (None, missing "image", empty body)
ChartResults == {"", "chart.png"}
NewsResults == {"", "bullish"}

VARIABLES
    user_states,    \* the module-level dict: chat id -> session dict
    messages,       \* messages on the Telegram side, by message id
    disp,           \* the send_signal requests in flight
    handlers,       \* the button_handler invocations in flight
    requests,       \* number of requests received so far
    faults,         \* number of external calls that have failed so far
    dispatched,     \* history: chat id -> the text send_signal last stored for it
    failed_open,    \* history: chats where the chart provider failed during a
                    \* technical_analysis press since send_signal last stored
    calc            \* the last POST /calculate-rr request and its response

vars == <<user_states, messages, disp, handlers, requests, faults, dispatched, failed_open, calc>>

\* what send_signal writes and button_handler only reads
store == <<user_states, dispatched>>


(***************************************************************************)
(* The Telegram side (bot.send_message, bot.send_photo,                    *)
(* query.edit_message_text)                                                *)
(***************************************************************************)
\* a send can succeed only while there is room for one more message
CanSend == Len(messages) < MaxMsgs

\* an external call succeeds, or fails while failures are left
Outcome(ok) ==
    IF ok THEN UNCHANGED faults
    ELSE /\ faults < MaxFaults
         /\ faults' = faults + 1

\* a send succeeds while there is room, or fails
SendOutcome(ok) ==
    IF ok THEN CanSend /\ UNCHANGED faults
    ELSE IF CanSend THEN Outcome(FALSE) ELSE UNCHANGED faults

\* messages after a successful send; origin and sent remember what the
\* message was when it was delivered
Delivered(chat, text, kb, origin) ==
    Append(messages, [chat |-> chat, text |-> text, kb |-> kb,
                      origin |-> origin, sent |-> text])

\* messages after a successful edit_message_text of message m
Edited(m, text, kb) == [messages EXCEPT ![m].text = text, ![m].kb = kb]

(***************************************************************************)
(* send_signal                                                             *)
(***************************************************************************)
IdleDisp ==
    [pc |-> "idle", signal_data |-> EmptyDict, message |-> "", chat_id |-> <<>>,
     subscribers |-> <<>>, idx |-> 0, to |-> "", results |-> <<>>, status |-> ""]

\* signal_data["instrument"] and signal_data["timeframe"] do not raise KeyError
HasSessionKeys(signal_data) == {"instrument", "timeframe"} \subseteq DOMAIN signal_data

\* the dict send_signal stores in user_states
SessionOf(signal_data, message) ==
    [instrument |-> signal_data["instrument"],
     timeframe |-> signal_data["timeframe"],
     original_message |-> message]

\* message = signal_data.get("formatted_message", ""); if not message: format
SignalText(signal_data) ==
    LET message == DictGet(signal_data, "formatted_message", "")
    IN  IF message = "" THEN format_signal_message(signal_data) ELSE message

\* the request is over: its locals are gone, its response and what it
\* attempted are remembered
Returned(d, status) ==
    [IdleDisp EXCEPT !.pc = "done", !.status = status,
                     !.chat_id = IF d.chat_id = ALL THEN ALL ELSE <<>>,
                     !.subscribers = d.subscribers, !.results = d.results]

\* the outer except of send_signal: HTTP 500
Failed500(d) == Returned(d, "error500")

\* return {"status": "success", ...}
Succeeded(d) == Returned(d, "success")

\* the requests send_signal serves at a time: asyncio runs the endpoint as
\* one coroutine per request, and a request that arrives while another one
\* awaits is served
DispIds == {"d1", "d2"}

\* slot s serves no request
Free(s) == disp[s].pc \in {"idle", "done"}

\* variant: storing a session starts user_states afresh
StoreAndSend_ForgetsOthers(s, d, chat) ==
    IF HasSessionKeys(d.signal_data)
    THEN /\ user_states' = DictSet(EmptyDict, chat, SessionOf(d.signal_data, d.message))
         /\ dispatched' = DictSet(dispatched, chat, d.message)
         /\ failed_open' = failed_open \ {chat}
         /\ disp' = [disp EXCEPT ![s] = [d EXCEPT !.pc = "send", !.to = chat]]
    ELSE /\ disp' = [disp EXCEPT ![s] = Failed500(d)]
         /\ UNCHANGED <<store, failed_open>>

\* "Store in user state", then issue bot.send_message to that chat
StoreAndSend(s, d, chat) ==
    IF HasSessionKeys(d.signal_data)
    THEN /\ user_states' = DictSet(user_states, chat, SessionOf(d.signal_data, d.message))
         /\ dispatched' = DictSet(dispatched, chat, d.message)
         /\ failed_open' = failed_open \ {chat}
         /\ disp' = [disp EXCEPT ![s] = [d EXCEPT !.pc = "send", !.to = chat]]
    ELSE /\ disp' = [disp EXCEPT ![s] = Failed500(d)]
         /\ UNCHANGED <<store, failed_open>>

\* the for loop over subscribers arrives at position i
LoopFrom(s, d, i) ==
    IF i > Len(d.subscribers)
    THEN /\ disp' = [disp EXCEPT ![s] = Succeeded(d)]
         /\ UNCHANGED <<store, failed_open>>
    ELSE StoreAndSend(s, [d EXCEPT !.idx = i], Strip(d.subscribers[i]))

\* variant: a failed send ends the request, as it does for a single chat
AfterSendFailed_Aborts(s, d) ==
    /\ disp' = [disp EXCEPT ![s] = Failed500(d)]
    /\ UNCHANGED <<store, failed_open>>

\* what follows a failed bot.send_message
AfterSendFailed(s, d) ==
    IF d.chat_id = ALL
    THEN LoopFrom(s, d, d.idx + 1)
    ELSE /\ disp' = [disp EXCEPT ![s] = Failed500(d)]
         /\ UNCHANGED <<store, failed_open>>

\* what follows a successful bot.send_message
AfterSendOk(s, d) ==
    IF d.chat_id = ALL
    THEN LoopFrom(s, d, d.idx + 1)
    ELSE /\ disp' = [disp EXCEPT ![s] = Succeeded(d)]
         /\ UNCHANGED <<store, failed_open>>

\* POST /send-signal arrives; runs up to the first await
SendSignalStart(s, signal_data, chat_id) ==
    /\ Free(s)
    /\ requests < MaxRequests
    /\ requests' = requests + 1
    /\ LET d == [IdleDisp EXCEPT !.signal_data = signal_data,
                                 !.message = SignalText(signal_data),
                                 !.chat_id = chat_id]
       IN  IF chat_id = ALL
           THEN /\ disp' = [disp EXCEPT ![s] = [d EXCEPT !.pc = "subs"]]
                /\ UNCHANGED <<store, failed_open>>
           ELSE StoreAndSend(s, d, Strip(chat_id))
    /\ UNCHANGED <<messages, handlers, faults, calc>>

\* await get_subscribers() completes
GetSubscribersDone(s) ==
    /\ disp[s].pc = "subs"
    /\ \E ok \in BOOLEAN :
         /\ Outcome(ok)
         /\ IF ok
            THEN \E subscribers \in SubscriberLists :
                    LoopFrom(s, [disp[s] EXCEPT !.subscribers = subscribers], 1)
            ELSE /\ disp' = [disp EXCEPT ![s] = Failed500(@)]
                 /\ UNCHANGED <<store, failed_open>>
    /\ UNCHANGED <<messages, handlers, requests, calc>>

\* await bot.send_message(chat_id, text=message, reply_markup=...) completes
SendSignalMessageDone(s) ==
    /\ disp[s].pc = "send"
    /\ \E ok \in BOOLEAN :
         /\ SendOutcome(ok)
         /\ LET d == [disp[s] EXCEPT !.results = Append(@, [to |-> disp[s].to, ok |-> ok])]
            IN  IF ok
                THEN /\ messages' = Delivered(disp[s].to, disp[s].message, KB_MAIN, "signal")
                     /\ AfterSendOk(s, d)
                ELSE /\ UNCHANGED messages
                     /\ AfterSendFailed(s, d)
    /\ UNCHANGED <<handlers, requests, calc>>

(***************************************************************************)
(* button_handler                                                          *)
(***************************************************************************)
HandlerIds == {"h1", "h2"}

IdleHandler ==
    [pc |-> "idle", seq |-> 0, data |-> "", msg |-> 0, chat |-> "",
     user_state |-> EmptyDict,
     content |-> "", session_found |-> FALSE, provider_failed |-> FALSE,
     outcome |-> ""]

TECHNICAL == "technical_analysis"
SENTIMENT == "market_sentiment"
BACK == "back_to_signal"

LoadingText(data) == IF data = TECHNICAL THEN LOADING_TA ELSE LOADING_MS

FailedText(data) == IF data = TECHNICAL THEN TA_FAILED ELSE MS_FAILED

ProviderResults(data) == IF data = TECHNICAL THEN ChartResults ELSE NewsResults

\* the message sent with the fetched content and the back button
DetailText(hr) ==
    IF hr.data = TECHNICAL
    THEN TaHeader(hr.user_state)
    ELSE SentimentMessage(hr.user_state, hr.content)

\* variant: the restore after the detail leaves the message without buttons
RestoredView_NoKeyboard(user_state) ==
    [text |-> user_state["original_message"], kb |-> KB_NONE]

\* "Restore original message": what the pressed message is edited to after
\* the detail was sent
RestoredView(user_state) ==
    [text |-> user_state["original_message"], kb |-> KB_MAIN]

\* "Restore original message with error": what the pressed message is edited
\* to in the inner except
ErrRestoredView(user_state) ==
    [text |-> user_state["original_message"], kb |-> KB_MAIN]

\* "Edit message back to original": what back_to_signal edits the message to
BackView(user_state) ==
    [text |-> user_state["original_message"], kb |-> KB_MAIN]

\* the handler returns (or falls off its end): its locals are gone, what it
\* was asked and how it ended are remembered
Finished(hr, outcome) ==
    [IdleHandler EXCEPT !.pc = "done", !.seq = hr.seq,
                        !.outcome = outcome, !.data = hr.data,
                        !.msg = hr.msg, !.chat = hr.chat,
                        !.session_found = hr.session_found,
                        !.provider_failed = hr.provider_failed]

\* an exception reaches the outer except: its edit_message_text is issued
ToFallback(hr) == [hr EXCEPT !.pc = "fallback"]

\* an exception reaches the inner except: its edit_message_text is issued
ToErrRestore(hr) == [hr EXCEPT !.pc = "restore_err"]

\* variant: the placeholder edit is made before query.answer() is issued
Press_EditsFirst(h, m, data) ==
    /\ handlers[h].pc \in {"idle", "done"}
    /\ m \in DOMAIN messages
    /\ handlers' = [handlers EXCEPT ![h] =
           [IdleHandler EXCEPT !.pc = "answer", !.seq = requests + 1,
                               !.data = data, !.msg = m,
                               !.chat = messages[m].chat]]
    /\ messages' = Edited(m, LoadingText(data), KB_NONE)
    /\ requests < MaxRequests
    /\ requests' = requests + 1
    /\ UNCHANGED <<store, disp, faults, failed_open, calc>>

\* a callback query arrives at /webhook: telegram_webhook hands it to
\* button_handler whatever its data and whatever the message shows by now,
\* and button_handler issues query.answer()
Press(h, m, data) ==
    /\ handlers[h].pc \in {"idle", "done"}
    /\ m \in DOMAIN messages
    /\ handlers' = [handlers EXCEPT ![h] =
           [IdleHandler EXCEPT !.pc = "answer", !.seq = requests + 1,
                               !.data = data, !.msg = m,
                               !.chat = messages[m].chat]]
    /\ requests < MaxRequests
    /\ requests' = requests + 1
    /\ UNCHANGED <<store, messages, disp, faults, failed_open, calc>>

\* lines 391-400, 463-469, 535-536: the session is read and the branch chosen
AfterAnswer(hr) ==
    LET user_state == DictGet(user_states, hr.chat, EmptyDict)
        r == [hr EXCEPT !.user_state = user_state,
                        !.session_found = hr.chat \in DOMAIN user_states]
    IN  IF hr.data \in {TECHNICAL, SENTIMENT}
        THEN IF ~({"instrument", "timeframe"} \subseteq DOMAIN user_state)
             THEN [r EXCEPT !.pc = "no_pair_info"]
             ELSE [r EXCEPT !.pc = "loading"]
        ELSE IF hr.data = BACK
        THEN IF "original_message" \in DOMAIN user_state
             THEN [r EXCEPT !.pc = "back"]
             ELSE Finished(r, "silent")
        ELSE Finished(r, "silent")

\* await query.answer() completes; it is outside the try, so its failure
\* leaves button_handler as an exception
AnswerDone(h) ==
    /\ handlers[h].pc = "answer"
    /\ \E ok \in BOOLEAN :
         /\ Outcome(ok)
         /\ handlers' = [handlers EXCEPT ![h] =
                IF ok THEN AfterAnswer(@) ELSE Finished(@, "raised")]
    /\ UNCHANGED <<store, messages, disp, requests, failed_open, calc>>

\* variant: a press on a chat without session leaves an empty session behind
NoPairInfoEditDone_CreatesSession(h) ==
    /\ handlers[h].pc = "no_pair_info"
    /\ \E ok \in BOOLEAN :
         /\ Outcome(ok)
         /\ IF ok
            THEN /\ messages' = Edited(handlers[h].msg, NO_PAIR_INFO, KB_NONE)
                 /\ handlers' = [handlers EXCEPT ![h] = Finished(@, "no_pair_info")]
            ELSE /\ UNCHANGED messages
                 /\ handlers' = [handlers EXCEPT ![h] = ToFallback(@)]
    /\ user_states' = DictSet(user_states, handlers[h].chat, handlers[h].user_state)
    /\ UNCHANGED <<dispatched, disp, requests, failed_open, calc>>

\* await query.edit_message_text(NO_PAIR_INFO, reply_markup=None) completes
NoPairInfoEditDone(h) ==
    /\ handlers[h].pc = "no_pair_info"
    /\ \E ok \in BOOLEAN :
         /\ Outcome(ok)
         /\ IF ok
            THEN /\ messages' = Edited(handlers[h].msg, NO_PAIR_INFO, KB_NONE)
                 /\ handlers' = [handlers EXCEPT ![h] = Finished(@, "no_pair_info")]
            ELSE /\ UNCHANGED messages
                 /\ handlers' = [handlers EXCEPT ![h] = ToFallback(@)]
    /\ UNCHANGED <<store, disp, requests, failed_open, calc>>

\* await query.edit_message_text(loading_message, reply_markup=None) completes
LoadingEditDone(h) ==
    /\ handlers[h].pc = "loading"
    /\ \E ok \in BOOLEAN :
         /\ Outcome(ok)
         /\ IF ok
            THEN /\ messages' = Edited(handlers[h].msg, LoadingText(handlers[h].data), KB_NONE)
                 /\ handlers' = [handlers EXCEPT ![h].pc = "fetch"]
            ELSE /\ UNCHANGED messages
                 /\ handlers' = [handlers EXCEPT ![h] = ToFallback(@)]
    /\ UNCHANGED <<store, disp, requests, failed_open, calc>>

\* await get_chart_image(...) / get_news_analysis(...) completes
FetchDone(h) ==
    /\ handlers[h].pc = "fetch"
    /\ \E result \in ProviderResults(handlers[h].data) :
         /\ Outcome(result # "")
         /\ handlers' = [handlers EXCEPT ![h] =
                IF result = ""
                THEN ToErrRestore([@ EXCEPT !.provider_failed = TRUE])
                ELSE [@ EXCEPT !.pc = "send_detail", !.content = result]]
         /\ failed_open' =
                IF result = "" /\ handlers[h].data = TECHNICAL
                THEN failed_open \cup {handlers[h].chat}
                ELSE failed_open
    /\ UNCHANGED <<store, messages, disp, requests, calc>>

\* await bot.send_message(detail text, back button) completes
SendDetailDone(h) ==
    /\ handlers[h].pc = "send_detail"
    /\ \E ok \in BOOLEAN :
         /\ SendOutcome(ok)
         /\ IF ok
            THEN /\ messages' = Delivered(handlers[h].chat, DetailText(handlers[h]),
                                          KB_BACK, handlers[h].data)
                 /\ handlers' = [handlers EXCEPT ![h].pc =
                        IF handlers[h].data = TECHNICAL THEN "send_photo" ELSE "restore"]
            ELSE /\ UNCHANGED messages
                 /\ handlers' = [handlers EXCEPT ![h] = ToErrRestore(@)]
    /\ UNCHANGED <<store, disp, requests, failed_open, calc>>

\* await bot.send_photo(chat_id, photo=chart_image) completes
SendPhotoDone(h) ==
    /\ handlers[h].pc = "send_photo"
    /\ \E ok \in BOOLEAN :
         /\ SendOutcome(ok)
         /\ IF ok
            THEN /\ messages' = Delivered(handlers[h].chat, PhotoText(handlers[h].content),
                                          KB_NONE, "photo")
                 /\ handlers' = [handlers EXCEPT ![h].pc = "restore"]
            ELSE /\ UNCHANGED messages
                 /\ handlers' = [handlers EXCEPT ![h] = ToErrRestore(@)]
    /\ UNCHANGED <<store, disp, requests, failed_open, calc>>

\* await query.edit_message_text(original_message, main keyboard) in the try
\* completes
RestoreEditDone(h) ==
    /\ handlers[h].pc = "restore"
    /\ \E ok \in BOOLEAN :
         /\ Outcome(ok)
         /\ IF ok
            THEN /\ LET v == RestoredView(handlers[h].user_state)
                    IN  messages' = Edited(handlers[h].msg, v.text, v.kb)
                 /\ handlers' = [handlers EXCEPT ![h] = Finished(@, "restored")]
            ELSE /\ UNCHANGED messages
                 /\ handlers' = [handlers EXCEPT ![h] = ToErrRestore(@)]
    /\ UNCHANGED <<store, disp, requests, failed_open, calc>>

\* variant: the inner except forgets the session of the chat
ErrRestoreEditDone_DropsSession(h) ==
    /\ handlers[h].pc = "restore_err"
    /\ \E ok \in BOOLEAN :
         /\ Outcome(ok)
         /\ IF ok
            THEN /\ LET v == ErrRestoredView(handlers[h].user_state)
                    IN  messages' = Edited(handlers[h].msg, v.text, v.kb)
                 /\ handlers' = [handlers EXCEPT ![h].pc = "notice"]
            ELSE /\ UNCHANGED messages
                 /\ handlers' = [handlers EXCEPT ![h] = ToFallback(@)]
    /\ user_states' = [c \in DOMAIN user_states \ {handlers[h].chat} |-> user_states[c]]
    /\ UNCHANGED <<dispatched, disp, requests, failed_open, calc>>

\* await query.edit_message_text(original_message, main keyboard) in the
\* inner except completes
ErrRestoreEditDone(h) ==
    /\ handlers[h].pc = "restore_err"
    /\ \E ok \in BOOLEAN :
         /\ Outcome(ok)
         /\ IF ok
            THEN /\ LET v == ErrRestoredView(handlers[h].user_state)
                    IN  messages' = Edited(handlers[h].msg, v.text, v.kb)
                 /\ handlers' = [handlers EXCEPT ![h].pc = "notice"]
            ELSE /\ UNCHANGED messages
                 /\ handlers' = [handlers EXCEPT ![h] = ToFallback(@)]
    /\ UNCHANGED <<store, disp, requests, failed_open, calc>>

\* await bot.send_message("Sorry, I couldn't ...") in the inner except completes
NoticeDone(h) ==
    /\ handlers[h].pc = "notice"
    /\ \E ok \in BOOLEAN :
         /\ SendOutcome(ok)
         /\ IF ok
            THEN /\ messages' = Delivered(handlers[h].chat, FailedText(handlers[h].data),
                                          KB_NONE, "notice")
                 /\ handlers' = [handlers EXCEPT ![h] = Finished(@, "notice_sent")]
            ELSE /\ UNCHANGED messages
                 /\ handlers' = [handlers EXCEPT ![h] = ToFallback(@)]
    /\ UNCHANGED <<store, disp, requests, failed_open, calc>>

\* await query.edit_message_text(original_message, main keyboard) of
\* back_to_signal completes
BackEditDone(h) ==
    /\ handlers[h].pc = "back"
    /\ \E ok \in BOOLEAN :
         /\ Outcome(ok)
         /\ IF ok
            THEN /\ LET v == BackView(handlers[h].user_state)
                    IN  messages' = Edited(handlers[h].msg, v.text, v.kb)
                 /\ handlers' = [handlers EXCEPT ![h] = Finished(@, "back")]
            ELSE /\ UNCHANGED messages
                 /\ handlers' = [handlers EXCEPT ![h] = ToFallback(@)]
    /\ UNCHANGED <<store, disp, requests, failed_open, calc>>

\* await query.edit_message_text(WENT_WRONG, reply_markup=None) in the outer
\* except completes; its own failure is swallowed
FallbackEditDone(h) ==
    /\ handlers[h].pc = "fallback"
    /\ \E ok \in BOOLEAN :
         /\ Outcome(ok)
         /\ IF ok
            THEN /\ messages' = Edited(handlers[h].msg, WENT_WRONG, KB_NONE)
                 /\ handlers' = [handlers EXCEPT ![h] = Finished(@, "went_wrong")]
            ELSE /\ UNCHANGED messages
                 /\ handlers' = [handlers EXCEPT ![h] = Finished(@, "went_wrong_lost")]
    /\ UNCHANGED <<store, disp, requests, failed_open, calc>>

(***************************************************************************)
(* Python floats (IEEE 754 binary64, round to nearest, ties to even)       *)
(*                                                                         *)
(* A natural number of any size is the sequence of its digits in base      *)
(* 2^15, least significant first, without leading zeros; <<>> is 0.        *)
(* A float is [neg, m, e] and stands for (-1)^neg * m * 2^e, where m is    *)
(* such a natural number with 2^52 <= m < 2^53, or m = <<>>, e = 0 for     *)
(* zero.  The values met here are far from the subnormal and overflow      *)
(* ranges, which are left out.                                             *)
(***************************************************************************)
BASE == 32768

RECURSIVE Trim(_)
Trim(a) == IF a # <<>> /\ a[Len(a)] = 0 THEN Trim(SubSeq(a, 1, Len(a) - 1)) ELSE a

RECURSIVE NatOf(_)
NatOf(n) == IF n = 0 THEN <<>> ELSE <<n % BASE>> \o NatOf(n \div BASE)

RECURSIVE IntOf(_)
IntOf(a) == IF a = <<>> THEN 0 ELSE Head(a) + BASE * IntOf(Tail(a))

Limb(a, i) == IF i <= Len(a) THEN a[i] ELSE 0

RECURSIVE AddFrom(_, _, _, _)
AddFrom(a, b, i, carry) ==
    IF i > Len(a) /\ i > Len(b)
    THEN IF carry = 0 THEN <<>> ELSE <<carry>>
    ELSE LET s == Limb(a, i) + Limb(b, i) + carry
         IN  <<s % BASE>> \o AddFrom(a, b, i + 1, s \div BASE)

NatAdd(a, b) == AddFrom(a, b, 1, 0)

RECURSIVE SubFrom(_, _, _, _)
SubFrom(a, b, i, borrow) ==
    IF i > Len(a) THEN <<>>
    ELSE LET s == a[i] - Limb(b, i) - borrow
         IN  IF s < 0 THEN <<s + BASE>> \o SubFrom(a, b, i + 1, 1)
             ELSE <<s>> \o SubFrom(a, b, i + 1, 0)

\* a - b, for a >= b
NatSub(a, b) == Trim(SubFrom(a, b, 1, 0))

RECURSIVE LessFrom(_, _, _)
LessFrom(a, b, i) ==
    IF i = 0 THEN FALSE
    ELSE IF a[i] # b[i] THEN a[i] < b[i]
    ELSE LessFrom(a, b, i - 1)

NatLess(a, b) == IF Len(a) # Len(b) THEN Len(a) < Len(b) ELSE LessFrom(a, b, Len(a))

RECURSIVE MulSmallFrom(_, _, _, _)
MulSmallFrom(a, k, i, carry) ==
    IF i > Len(a)
    THEN IF carry = 0 THEN <<>> ELSE <<carry>>
    ELSE LET p == a[i] * k + carry
         IN  <<p % BASE>> \o MulSmallFrom(a, k, i + 1, p \div BASE)

\* a * k, for 0 <= k <= BASE
NatMulSmall(a, k) == Trim(MulSmallFrom(a, k, 1, 0))

RECURSIVE NatMul(_, _)
NatMul(a, b) ==
    IF a = <<>> \/ b = <<>> THEN <<>>
    ELSE LET rest == NatMul(a, Tail(b))
         IN  NatAdd(NatMulSmall(a, Head(b)), IF rest = <<>> THEN <<>> ELSE <<0>> \o rest)

RECURSIVE DivSmallFrom(_, _, _, _)
DivSmallFrom(a, k, i, rem) ==
    IF i = 0 THEN [q |-> <<>>, r |-> rem]
    ELSE LET cur == rem * BASE + a[i]
             rest == DivSmallFrom(a, k, i - 1, cur % k)
         IN  [q |-> Append(rest.q, cur \div k), r |-> rest.r]

\* quotient and remainder of a by k, for 0 < k <= BASE
NatDivSmall(a, k) ==
    LET d == DivSmallFrom(a, k, Len(a), 0) IN [q |-> Trim(d.q), r |-> d.r]

RECURSIVE Pow2(_)
Pow2(n) == IF n = 0 THEN 1 ELSE 2 * Pow2(n - 1)

RECURSIVE Zeros(_)
Zeros(n) == IF n = 0 THEN <<>> ELSE <<0>> \o Zeros(n - 1)

\* a * 2^n
NatShl(a, n) ==
    IF a = <<>> THEN <<>> ELSE Zeros(n \div 15) \o NatMulSmall(a, Pow2(n % 15))

\* floor(a / 2^n)
NatShr(a, n) ==
    IF n \div 15 >= Len(a) THEN <<>>
    ELSE NatDivSmall(SubSeq(a, n \div 15 + 1, Len(a)), Pow2(n % 15)).q

\* a mod 2^n
NatLow(a, n) ==
    IF n \div 15 >= Len(a) THEN a
    ELSE Trim(Append(SubSeq(a, 1, n \div 15), a[n \div 15 + 1] % Pow2(n % 15)))

RECURSIVE SmallBits(_)
SmallBits(k) == IF k = 0 THEN 0 ELSE 1 + SmallBits(k \div 2)

\* number of binary digits of a
BitLen(a) == IF a = <<>> THEN 0 ELSE 15 * (Len(a) - 1) + SmallBits(a[Len(a)])

NatEven(a) == a = <<>> \/ a[1] % 2 = 0

\* a / 2^n rounded to the nearest natural number, ties to the even one
RoundShr(a, n) ==
    IF n = 0 THEN a
    ELSE LET q == NatShr(a, n)
             low == NatLow(a, n)
             half == NatShl(<<1>>, n - 1)
         IN  IF NatLess(low, half) THEN q
             ELSE IF NatLess(half, low) THEN NatAdd(q, <<1>>)
             ELSE IF NatEven(q) THEN q
             ELSE NatAdd(q, <<1>>)

\* the float nearest to (-1)^neg * a * 2^e
Nearest(neg, a, e) ==
    IF a = <<>> THEN [neg |-> neg, m |-> <<>>, e |-> 0]
    ELSE LET n == BitLen(a)
         IN  IF n <= 53
             THEN [neg |-> neg, m |-> NatShl(a, 53 - n), e |-> e - (53 - n)]
             ELSE LET r == RoundShr(a, n - 53)
                  IN  IF BitLen(r) = 54
                      THEN [neg |-> neg, m |-> NatShr(r, 1), e |-> e + (n - 53) + 1]
                      ELSE [neg |-> neg, m |-> r, e |-> e + (n - 53)]

FZero(x) == x.m = <<>>

FNeg(x) == [x EXCEPT !.neg = ~x.neg]

\* x * y
FMul(x, y) == Nearest(x.neg # y.neg, NatMul(x.m, y.m), x.e + y.e)

\* x + y
FAdd(x, y) ==
    IF FZero(x) /\ FZero(y) THEN [x EXCEPT !.neg = x.neg /\ y.neg]
    ELSE IF FZero(x) THEN y
    ELSE IF FZero(y) THEN x
    ELSE LET e == IF x.e < y.e THEN x.e ELSE y.e
             a == NatShl(x.m, x.e - e)
             b == NatShl(y.m, y.e - e)
         IN  IF x.neg = y.neg THEN Nearest(x.neg, NatAdd(a, b), e)
             ELSE IF a = b THEN Nearest(FALSE, <<>>, 0)
             ELSE IF NatLess(b, a) THEN Nearest(x.neg, NatSub(a, b), e)
             ELSE Nearest(y.neg, NatSub(b, a), e)

\* x - y
FSub(x, y) == FAdd(x, FNeg(y))

\* one step of the long division by den, whose leading digit is at least
\* BASE / 2: quotient digit and remainder of rem * BASE by den, for
\* rem < den.  The digit estimated from the leading digits is at most two
\* too large.
DivStep(rem, den) ==
    LET r == IF rem = <<>> THEN <<>> ELSE <<0>> \o rem
        n == Len(den)
        guess == (Limb(r, n + 1) * BASE + Limb(r, n)) \div den[n]
        q0 == IF guess >= BASE THEN BASE - 1 ELSE guess
        q1 == IF NatLess(r, NatMulSmall(den, q0)) THEN q0 - 1 ELSE q0
        q2 == IF NatLess(r, NatMulSmall(den, q1)) THEN q1 - 1 ELSE q1
    IN  [q |-> q2, r |-> NatSub(r, NatMulSmall(den, q2))]

\* x / y, for y # 0: the quotient of the mantissas, four digits after the
\* point, and one more binary digit that tells whether a remainder is left
FDiv(x, y) ==
    IF FZero(x) THEN [neg |-> x.neg # y.neg, m |-> <<>>, e |-> 0]
    ELSE LET a == NatMulSmall(x.m, 128)
             b == NatMulSmall(y.m, 128)
             one == ~NatLess(a, b)
             d1 == DivStep(IF one THEN NatSub(a, b) ELSE a, b)
             d2 == DivStep(d1.r, b)
             d3 == DivStep(d2.r, b)
             d4 == DivStep(d3.r, b)
             q == Trim(<<d4.q, d3.q, d2.q, d1.q, IF one THEN 1 ELSE 0>>)
             sticky == IF d4.r = <<>> THEN <<>> ELSE <<1>>
         IN  Nearest(x.neg # y.neg, NatAdd(NatMulSmall(q, 2), sticky), x.e - y.e - 61)

RECURSIVE Pow10(_)
Pow10(n) == IF n = 0 THEN 1 ELSE 10 * Pow10(n - 1)

Abs(v) == IF v < 0 THEN -v ELSE v

\* float("..."): the float nearest to the decimal number v / 10000
Float(v) ==
    LET d == NatDivSmall(NatShl(NatOf(Abs(v)), 75), 10000)
        sticky == IF d.r = 0 THEN <<>> ELSE <<1>>
    IN  Nearest(v < 0, NatAdd(NatMulSmall(d.q, 2), sticky), -76)

\* round(x, decimals), for 0 <= decimals <= 4: of the multiples of
\* 10^-decimals the one nearest to the exact value of the float x, of two
\* equally near ones the even one; given in units of 0.0001 (round returns
\* the float nearest to it)
Round(x, decimals) ==
    LET n == NatMulSmall(x.m, Pow10(decimals))
        r == IF x.e >= 0 THEN NatShl(n, x.e) ELSE RoundShr(n, -x.e)
        units == IntOf(r) * Pow10(4 - decimals)
    IN  IF x.neg THEN -units ELSE units

(***************************************************************************)
(* calculate_rr_levels and POST /calculate-rr                              *)
(*                                                                         *)
(* A decimal number (a price or distance of a request, a literal of        *)
(* MARKET_SETTINGS, a value round returns) is a whole number of            *)
(* ten-thousandths (0.0001), the finest pip_value and the finest rounding  *)
(* step of MARKET_SETTINGS; Float gives the float Python reads it as.      *)
(* An optional value is <<>> (None) or <<v>>.                              *)
(***************************************************************************)
None == <<>>

Some(v) == <<v>>

MARKET_SETTINGS ==
    [EURUSD |-> [pip_value |-> 1, decimals |-> 4],
     GBPUSD |-> [pip_value |-> 1, decimals |-> 4],
     USDJPY |-> [pip_value |-> 100, decimals |-> 3],
     AUDUSD |-> [pip_value |-> 1, decimals |-> 4],
     USDCAD |-> [pip_value |-> 1, decimals |-> 4],
     BTCUSD |-> [pip_value |-> 10000, decimals |-> 1],
     ETHUSD |-> [pip_value |-> 1000, decimals |-> 2],
     XRPUSD |-> [pip_value |-> 1, decimals |-> 4],
     US30 |-> [pip_value |-> 10000, decimals |-> 0],
     SPX500 |-> [pip_value |-> 2500, decimals |-> 2],
     NAS100 |-> [pip_value |-> 2500, decimals |-> 2],
     XAUUSD |-> [pip_value |-> 1000, decimals |-> 2],
     XAGUSD |-> [pip_value |-> 100, decimals |-> 3],
     WTIUSD |-> [pip_value |-> 100, decimals |-> 2]]

\* "using default forex settings"
DEFAULT_SETTINGS == [pip_value |-> 1, decimals |-> 4]

\* the dict calculate_rr_levels returns, or None where its except returns
\* None.  entry_price is a float, risk_pips and risk_points are optional
\* floats; stop_loss and take_profit are the decimals round returns
calculate_rr_levels(instrument, entry_price, direction, risk_pips, risk_points) ==
    IF instrument = NONSTR
    THEN None
    ELSE LET settings ==
                 IF Upper(instrument) \in DOMAIN MARKET_SETTINGS
                 THEN MARKET_SETTINGS[Upper(instrument)]
                 ELSE DEFAULT_SETTINGS
             pip_value == Float(settings.pip_value)
             decimals == settings.decimals
             points ==
                 IF risk_pips # None
                 THEN Some(FMul(risk_pips[1], pip_value))
                 ELSE risk_points
         IN  IF points = None \/ direction = NONSTR
             THEN None
             ELSE LET buy == Lower(direction) = "buy"
                      below == Round(FSub(entry_price, points[1]), decimals)
                      above == Round(FAdd(entry_price, points[1]), decimals)
                  IN  Some([entry_price |-> entry_price,
                            stop_loss |-> IF buy THEN below ELSE above,
                            take_profit |-> IF buy THEN above ELSE below,
                            risk_points |-> points[1],
                            risk_pips |-> FDiv(points[1], pip_value),
                            pip_value |-> pip_value])

\* "not x" of an optional float
Falsy(x) == x = None \/ FZero(x[1])

\* the response of POST /calculate-rr: the status, the detail of the
\* HTTPException raised inside the try, the levels returned
calculate_risk_reward(instrument, entry_price, direction, risk_pips, risk_points) ==
    IF Falsy(risk_pips) /\ Falsy(risk_points)
    THEN [status |-> 500, raised |-> "Either risk_pips or risk_points must be provided",
          levels |-> None]
    ELSE LET result == calculate_rr_levels(instrument, entry_price, direction,
                                           risk_pips, risk_points)
         IN  IF result = None
             THEN [status |-> 500, raised |-> "Error calculating RR levels", levels |-> None]
             ELSE [status |-> 200, raised |-> "", levels |-> result]

\* an optional query parameter declared float: absent, or the float of the
\* decimal sent
OptFloat(x) == IF x = None THEN None ELSE Some(Float(x[1]))

\* the inputs of POST /calculate-rr: instruments in both cases and one
\* without settings, directions in three spellings, decimals that floats
\* hold exactly and decimals that they do not
RRInstruments == {"US30", "us30", "btcusd", "EURUSD", "XAUUSD", "DAX40"}
RREntries == {1000000, 1002500, 28000, 11000}
RRDirections == {"buy", "bUY", "SELL"}
RRPips == {None, Some(0), Some(10000), Some(5000)}
RRPoints == {None, Some(2500), Some(1250), Some(50)}

NoResponse == [status |-> 0, raised |-> "", levels |-> None]

IdleCalc ==
    [pc |-> "idle", instrument |-> "", entry_price |-> 0, direction |-> "",
     risk_pips |-> None, risk_points |-> None, response |-> NoResponse]

\* POST /calculate-rr arrives with its query parameters
CalculateRrRequest(instrument, entry_price, direction, risk_pips, risk_points) ==
    /\ calc.pc \in {"idle", "done"}
    /\ calc' = [pc |-> "serving", instrument |-> instrument,
                entry_price |-> entry_price, direction |-> direction,
                risk_pips |-> risk_pips, risk_points |-> risk_points,
                response |-> NoResponse]
    /\ UNCHANGED <<store, messages, disp, handlers, requests, faults, failed_open>>

\* the request is served: the parameters are read as floats and the handler,
\* which awaits nothing, runs to its response
CalculateRiskReward ==
    /\ calc.pc = "serving"
    /\ calc' = [calc EXCEPT
           !.pc = "done",
           !.response = calculate_risk_reward(calc.instrument, Float(calc.entry_price),
                                              calc.direction, OptFloat(calc.risk_pips),
                                              OptFloat(calc.risk_points))]
    /\ UNCHANGED <<store, messages, disp, handlers, requests, faults, failed_open>>

(***************************************************************************)
(* The process                                                             *)
(***************************************************************************)
OLD_SIGNAL == "signal of an earlier run"

\* what the chats hold when the process starts: a message an earlier run of
\* the service left there, buttons included
OldMessages ==
    << [chat |-> "2", text |-> OLD_SIGNAL, kb |-> KB_MAIN,
        origin |-> "signal", sent |-> OLD_SIGNAL] >>

\* module initialisation: user_states = {}, nothing in flight
Init ==
    /\ user_states = EmptyDict
    /\ messages = OldMessages
    /\ disp = [s \in DispIds |-> IdleDisp]
    /\ handlers = [h \in HandlerIds |-> IdleHandler]
    /\ requests = 0
    /\ faults = 0
    /\ dispatched = EmptyDict
    /\ failed_open = {}
    /\ calc = IdleCalc

\* the steps of one button_handler invocation
Handler(h) ==
    \/ AnswerDone(h)
    \/ NoPairInfoEditDone(h)
    \/ LoadingEditDone(h)
    \/ FetchDone(h)
    \/ SendDetailDone(h)
    \/ SendPhotoDone(h)
    \/ RestoreEditDone(h)
    \/ ErrRestoreEditDone(h)
    \/ NoticeDone(h)
    \/ BackEditDone(h)
    \/ FallbackEditDone(h)

\* a button of some message is pressed and taken by a handler of H
PressAny(H) ==
    \E h \in H, m \in 1..MaxMsgs, data \in {TECHNICAL, SENTIMENT, BACK, OTHER_DATA} :
        Press(h, m, data)

\* Navigation: signals sent to single chats and button presses, one request
\* of each kind served at a time
Next ==
    \/ \E signal_data \in SignalInputs, chat_id \in RawChats :
          SendSignalStart("d1", signal_data, chat_id)
    \/ SendSignalMessageDone("d1")
    \/ PressAny({"h1"})
    \/ Handler("h1")

Spec == Init /\ [][Next]_vars

\* Dispatch: send_signal alone, one request at a time, broadcasts included
NextDispatch ==
    \/ \E signal_data \in SignalInputs, chat_id \in RawChats \cup {ALL} :
          SendSignalStart("d1", signal_data, chat_id)
    \/ GetSubscribersDone("d1")
    \/ SendSignalMessageDone("d1")

SpecDispatch == Init /\ [][NextDispatch]_vars

\* Direct: send_signal alone, to single chats, two requests served at once,
\* signals of every shape
NextDirect ==
    \/ \E s \in DispIds, signal_data \in DispatchInputs, chat_id \in RawChats :
          SendSignalStart(s, signal_data, chat_id)
    \/ \E s \in DispIds : SendSignalMessageDone(s)

SpecDirect == Init /\ [][NextDirect]_vars

\* the signals and chats of the specification of the session store
StoreInputs == {SIG_FULL, SIG_FORMATTED}
StoreChats == {<<" ", "1">>, <<"2">>}

\* Store: signals sent to single chats, two requests served at once, and
\* technical_analysis and back_to_signal presses served one at a time
NextStore ==
    \/ \E s \in DispIds, signal_data \in StoreInputs, chat_id \in StoreChats :
          SendSignalStart(s, signal_data, chat_id)
    \/ \E s \in DispIds : SendSignalMessageDone(s)
    \/ \E m \in 1..MaxMsgs, data \in {TECHNICAL, BACK} : Press("h1", m, data)
    \/ Handler("h1")

SpecStore == Init /\ [][NextStore]_vars

\* Race: signals sent to single chats and button presses, two requests of
\* each kind served at once
NextRace ==
    \/ \E s \in DispIds, signal_data \in SignalInputs, chat_id \in RawChats :
          SendSignalStart(s, signal_data, chat_id)
    \/ \E s \in DispIds : SendSignalMessageDone(s)
    \/ PressAny(HandlerIds)
    \/ \E h \in HandlerIds : Handler(h)

SpecRace == Init /\ [][NextRace]_vars

\* the steps of a technical_analysis or market_sentiment invocation
OpenHandler(h) ==
    \/ AnswerDone(h)
    \/ NoPairInfoEditDone(h)
    \/ LoadingEditDone(h)
    \/ FetchDone(h)
    \/ SendDetailDone(h)
    \/ SendPhotoDone(h)
    \/ RestoreEditDone(h)
    \/ ErrRestoreEditDone(h)
    \/ NoticeDone(h)
    \/ FallbackEditDone(h)

\* the messages that were sent with the Technical Analysis and Market
\* Sentiment buttons
SignalMessages == {m \in DOMAIN messages : messages[m].origin = "signal"}

\* Taps: one signal sent to one chat, the technical_analysis presses and the
\* market_sentiment presses on signal messages served concurrently
NextTaps ==
    \/ disp["d1"].pc = "idle" /\ SendSignalStart("d1", SIG_FULL, <<"2">>)
    \/ SendSignalMessageDone("d1")
    \/ \E m \in SignalMessages : Press("h1", m, TECHNICAL)
    \/ \E m \in SignalMessages : Press("h2", m, SENTIMENT)
    \/ \E h \in HandlerIds : OpenHandler(h)

\* every awaited call completes (the Telegram, chart and news clients time
\* out), and the event loop resumes the coroutine that awaits it
SpecTaps ==
    /\ Init
    /\ [][NextTaps]_vars
    /\ \A h \in HandlerIds : WF_vars(OpenHandler(h))

\* Levels: POST /calculate-rr alone
NextRR ==
    \/ \E instrument \in RRInstruments, entry_price \in RREntries,
          direction \in RRDirections, risk_pips \in RRPips, risk_points \in RRPoints :
           CalculateRrRequest(instrument, entry_price, direction, risk_pips, risk_points)
    \/ CalculateRiskReward

SpecRR == Init /\ [][NextRR]_vars

(***************************************************************************)
(* Properties                                                              *)
(***************************************************************************)
Detail == {TECHNICAL, SENTIMENT}

\* the invocation has put its loading placeholder up and has not yet
\* finished
Opening(hr) ==
    /\ hr.data \in Detail
    /\ hr.pc \in {"fetch", "send_detail", "send_photo", "restore", "restore_err", "notice"}

\* handler h takes a step
Steps(h) == handlers'[h] # handlers[h]

\* the edit of back_to_signal is accepted and the handler returns
BackSucceeded(h) ==
    /\ handlers[h].pc = "back"
    /\ handlers'[h].pc = "done"
    /\ handlers'[h].outcome = "back"

\* query.answer() of handler h is accepted: the session is read
SessionRead(h) ==
    /\ handlers[h].pc = "answer"
    /\ handlers'[h].pc # "answer"
    /\ handlers'[h].outcome # "raised"

\* C1: a request to open a detail view that arrives after a request for
\* another detail view of the same session, while that one is still being
\* opened, changes no displayed content.
C1Claim ==
    [][\A h \in HandlerIds, g \in HandlerIds :
          ( /\ h # g
            /\ Opening(handlers[g])
            /\ handlers[h].chat = handlers[g].chat
            /\ handlers[h].seq > handlers[g].seq
            /\ handlers[h].data \in Detail \ {handlers[g].data}
            /\ Steps(h) )
          => messages' = messages]_vars

\* C2: a back_to_signal invocation that found a session of its chat ends
\* with the pressed message showing the original_message it read from the
\* session together with the Technical Analysis / Market Sentiment keyboard
\* (the code records no view: what the message shows is all there is of it).
C2Claim ==
    [][\A h \in HandlerIds :
          ( /\ handlers[h].data = BACK
            /\ handlers[h].pc \in {"back", "fallback"}
            /\ handlers'[h].pc = "done" )
          => /\ messages'[handlers[h].msg].text = handlers[h].user_state["original_message"]
             /\ messages'[handlers[h].msg].kb = KB_MAIN]_vars

\* the provider failed and every Telegram call of the handler was accepted
ProviderFailureHandled(hr) ==
    /\ hr.pc = "done"
    /\ hr.provider_failed
    /\ hr.outcome = "notice_sent"

\* C3: after a provider failure during a technical_analysis or
\* market_sentiment invocation (every Telegram call of it accepted) the
\* pressed message shows the fixed friendly error together with a single
\* back control.
C3Claim ==
    \A h \in HandlerIds :
        ProviderFailureHandled(handlers[h])
        => /\ messages[handlers[h].msg].text = FailedText(handlers[h].data)
           /\ messages[handlers[h].msg].kb = KB_BACK

\* C4: once the chart provider has failed during a technical_analysis press
\* on a chat, a later back_to_signal press on that chat is not turned away,
\* and when its edit is accepted the pressed message shows the text
\* send_signal stored for the chat, with the main keyboard.
C4Thm ==
    [][\A h \in HandlerIds :
          (handlers[h].data = BACK /\ handlers[h].chat \in failed_open)
          => /\ SessionRead(h) => handlers'[h].pc = "back"
             /\ BackSucceeded(h)
                => /\ messages'[handlers[h].msg].text = dispatched[handlers[h].chat]
                   /\ messages'[handlers[h].msg].kb = KB_MAIN]_vars

C4Witness ==
    \E h \in HandlerIds :
        /\ handlers[h].pc = "done"
        /\ handlers[h].data = BACK
        /\ handlers[h].outcome = "back"
        /\ handlers[h].chat \in failed_open
        /\ messages[handlers[h].msg].text = dispatched[handlers[h].chat]

\* C5: a technical_analysis, market_sentiment or back_to_signal press whose
\* chat has no session leaves the pressed message showing the friendly
\* "try again with a new signal" text (Telegram calls accepted).
C5Claim ==
    \A h \in HandlerIds :
        ( /\ handlers[h].pc = "done"
          /\ handlers[h].data \in {TECHNICAL, SENTIMENT, BACK}
          /\ ~handlers[h].session_found
          /\ handlers[h].outcome \notin {"raised", "went_wrong", "went_wrong_lost"} )
        => messages[handlers[h].msg].text = NO_PAIR_INFO

\* C6: while no send_signal request is in flight, every session in user_states belongs
\* to a signal message that was delivered to that chat with that text.
C6Claim ==
    (\A s \in DispIds : Free(s))
    => \A c \in DOMAIN user_states :
          \E m \in DOMAIN messages :
              /\ messages[m].chat = c
              /\ messages[m].origin = "signal"
              /\ messages[m].sent = user_states[c]["original_message"]

\* C7: a signal message delivered by this process, whenever it shows a signal
\* with the main keyboard, shows the signal that was sent on it.
C7Claim ==
    \A m \in DOMAIN messages :
        ( /\ m > Len(OldMessages)
          /\ messages[m].origin = "signal"
          /\ messages[m].kb = KB_MAIN )
        => messages[m].text = messages[m].sent

\* the invocation has read the session and has calls outstanding
InSession(hr) == hr.pc \notin {"idle", "answer", "done"}

\* C8: two button presses of one chat are never both between their session
\* read and their last edit.
C8Claim ==
    \A h \in HandlerIds, g \in HandlerIds :
        ( /\ h # g
          /\ handlers[h].chat = handlers[g].chat
          /\ InSession(handlers[h]) )
        => ~InSession(handlers[g])

\* C9: when a handler that found a session has returned, the pressed message
\* shows neither a loading placeholder nor the something-went-wrong text:
\* what is displayed is what the session stands for.
C9Claim ==
    \A h \in HandlerIds :
        ( /\ handlers[h].pc = "done"
          /\ handlers[h].session_found
          /\ handlers[h].outcome # "raised" )
        => messages[handlers[h].msg].text \notin {LOADING_TA, LOADING_MS, WENT_WRONG}

\* C10: in a broadcast every subscriber is attempted exactly once, in order,
\* whatever the earlier attempts gave; the request fails only before its
\* first attempt.
C10Thm ==
    \A s \in DispIds :
        disp[s].chat_id = ALL
        => /\ \A i \in DOMAIN disp[s].results :
                 /\ i <= Len(disp[s].subscribers)
                 /\ disp[s].results[i].to = Strip(disp[s].subscribers[i])
           /\ disp[s].pc = "send" => Len(disp[s].results) = disp[s].idx - 1
           /\ (disp[s].pc = "done" /\ disp[s].status = "success")
                 => Len(disp[s].results) = Len(disp[s].subscribers)
           /\ (disp[s].pc = "done" /\ disp[s].status = "error500")
                 => disp[s].results = <<>>

C10Witness ==
    \E s \in DispIds :
        /\ disp[s].chat_id = ALL
        /\ disp[s].pc = "done"
        /\ disp[s].status = "success"
        /\ Len(disp[s].subscribers) >= 2
        /\ ~disp[s].results[1].ok
        /\ Len(disp[s].results) = Len(disp[s].subscribers)

\* the fields a signal description must carry to be valid
REQUIRED_FIELDS == {"instrument", "direction", "entry_price"}

\* C11: send_signal stores a session and issues a send only for a signal
\* that carries instrument, direction and entry price.
C11Claim ==
    \A s \in DispIds :
        disp[s].pc = "send" => REQUIRED_FIELDS \subseteq DOMAIN disp[s].signal_data

\* C12: a technical_analysis, market_sentiment or calendar press on a chat
\* with a session, with the provider answering and every Telegram call
\* accepted, ends with that detail delivered under a back button; none of the
\* three is ignored.
C12Claim ==
    \A h \in HandlerIds :
        ( /\ handlers[h].pc = "done"
          /\ handlers[h].data \in {TECHNICAL, SENTIMENT, OTHER_DATA}
          /\ handlers[h].session_found
          /\ ~handlers[h].provider_failed
          /\ handlers[h].outcome \notin {"raised", "went_wrong", "went_wrong_lost", "notice_sent"} )
        => \E m \in DOMAIN messages :
              /\ messages[m].chat = handlers[h].chat
              /\ messages[m].origin = handlers[h].data
              /\ messages[m].kb = KB_BACK

\* x > 0
FPositive(x) == ~FZero(x) /\ ~x.neg

\* C13: for a positive risk distance the levels calculate_rr_levels returns
\* lie at equal, positive distances on the two sides of entry, as decimals:
\* for buy entry - stop_loss = take_profit - entry > 0, for sell
\* stop_loss - entry = entry - take_profit > 0.
C13Claim ==
    ( /\ calc.pc = "done"
      /\ calc.response.levels # None
      /\ FPositive(calc.response.levels[1].risk_points) )
    => LET l == calc.response.levels[1]
           entry == calc.entry_price
       IN  IF Lower(calc.direction) = "buy"
           THEN /\ entry - l.stop_loss = l.take_profit - entry
                /\ entry - l.stop_loss > 0
           ELSE /\ l.stop_loss - entry = entry - l.take_profit
                /\ l.stop_loss - entry > 0

\* C14: the text send_signal sends for a signal with entry price 1.1000 and
\* stop loss 1.0950 and no take profit is the text of that signal with take
\* profit 1.1050.
C14Claim ==
    \A s \in DispIds :
        (disp[s].pc = "send" /\ disp[s].signal_data = SIG_ONE_LEVEL)
        => disp[s].message = format_signal_message(SIG_FULL)

\* C15: a step changes the session of a key only if it is send_signal
\* storing for that key; the sessions of all other keys, and every session
\* during a step of button_handler, stay as they are.
C15Thm ==
    [][\A c \in DOMAIN user_states :
          \/ /\ c \in DOMAIN user_states'
             /\ user_states'[c] = user_states[c]
          \/ \E s \in DispIds :
                /\ disp'[s] # disp[s]
                /\ disp'[s].pc = "send"
                /\ disp'[s].to = c]_vars

C15Witness ==
    /\ {"1", "2"} \subseteq DOMAIN user_states
    /\ user_states["1"] # user_states["2"]
    /\ \A s \in DispIds : disp[s].pc = "send"
    /\ disp["d1"].to # disp["d2"].to
    /\ \E h \in HandlerIds :
          /\ handlers[h].pc = "done"
          /\ handlers[h].session_found
          /\ handlers[h].outcome \in {"restored", "back", "notice_sent"}

\* C16: no step of button_handler creates or changes a session; user_states
\* changes only where send_signal stores the instrument, timeframe and text
\* of its signal, so every session holds the text last dispatched for its key.
C16Thm ==
    [][/\ (\E h \in HandlerIds : Steps(h)) => user_states' = user_states
       /\ user_states' # user_states
          => \E s \in DispIds :
                /\ disp'[s] # disp[s]
                /\ disp'[s].pc = "send"
                /\ user_states' = DictSet(user_states, disp'[s].to,
                       SessionOf(disp'[s].signal_data, disp'[s].message))
       /\ \A c \in DOMAIN user_states' :
             /\ c \in DOMAIN dispatched'
             /\ user_states'[c]["original_message"] = dispatched'[c]]_vars

C16Witness ==
    \E h \in HandlerIds :
        /\ handlers[h].pc = "done"
        /\ handlers[h].outcome \in {"no_pair_info", "went_wrong"}
        /\ ~handlers[h].session_found
        /\ handlers[h].chat \notin DOMAIN user_states
        /\ user_states # EmptyDict

\* C17: no failure of a call button_handler makes leaves button_handler as
\* an exception: every invocation ends by returning.
C17Claim ==
    \A h \in HandlerIds : handlers[h].outcome # "raised"

\* C18: the response of send_signal tells a dispatch with a failed delivery
\* from one whose deliveries all succeeded: where it is "success", every
\* attempted delivery was accepted.
C18Claim ==
    \A s \in DispIds :
        (disp[s].pc = "done" /\ disp[s].status = "success")
        => \A i \in DOMAIN disp[s].results : disp[s].results[i].ok

\* the message the invocation was pressed on shows the signal of the chat's
\* session with the Technical Analysis / Market Sentiment keyboard
ShowsSignal(hr) ==
    /\ hr.chat \in DOMAIN user_states
    /\ messages[hr.msg].text = user_states[hr.chat]["original_message"]
    /\ messages[hr.msg].kb = KB_MAIN

\* C19: a back_to_signal request handled while its message already shows the
\* signal changes nothing: no step of it alters the message or a session.
C19Claim ==
    [][\A h \in HandlerIds :
          ( /\ handlers[h].data = BACK
            /\ handlers[h].pc \in {"answer", "back", "fallback"}
            /\ ShowsSignal(handlers[h])
            /\ Steps(h) )
          => /\ messages' = messages
             /\ user_states' = user_states]_vars

\* the restore edit of the invocation has been accepted
Restored(hr) ==
    \/ hr.pc = "notice"
    \/ hr.pc = "done" /\ hr.outcome \in {"restored", "notice_sent"}

\* Telegram has rejected a call of the invocation
Rejected(hr) ==
    \/ hr.pc = "fallback"
    \/ hr.pc = "restore_err" /\ ~hr.provider_failed
    \/ hr.pc = "done" /\ hr.outcome \in {"went_wrong", "went_wrong_lost"}

\* no invocation is in flight
Quiet == \A h \in HandlerIds : handlers[h].pc \in {"idle", "done"}

\* every external call that failed so far is a provider call of an
\* invocation still on record: Telegram has rejected nothing
OnlyProvidersFailed ==
    faults = Cardinality({h \in HandlerIds : handlers[h].provider_failed})

\* C20: a technical_analysis or market_sentiment invocation that found a
\* session, however its steps interleave with another invocation's,
\* eventually has its restore edit accepted unless Telegram rejects one of
\* its calls, whether the provider answered or failed; that edit puts the
\* original_message it read and the main keyboard on the pressed message;
\* and when no invocation is in flight and Telegram has rejected nothing, no
\* message shows a loading placeholder.
C20Thm ==
    /\ \A h \in HandlerIds :
          (handlers[h].pc = "loading")
              ~> (Restored(handlers[h]) \/ Rejected(handlers[h]))
    /\ [][\A h \in HandlerIds :
             ( /\ handlers[h].pc \in {"restore", "restore_err"}
               /\ handlers'[h].pc \in {"notice", "done"} )
             => /\ messages'[handlers[h].msg].text = handlers[h].user_state["original_message"]
                /\ messages'[handlers[h].msg].kb = KB_MAIN]_vars
    /\ []((Quiet /\ OnlyProvidersFailed)
             => \A m \in DOMAIN messages : messages[m].text \notin {LOADING_TA, LOADING_MS})

C20Witness ==
    /\ handlers["h1"].pc = "done"
    /\ handlers["h1"].outcome = "notice_sent"
    /\ handlers["h1"].provider_failed
    /\ handlers["h2"].pc = "done"
    /\ handlers["h2"].outcome = "restored"
    /\ handlers["h1"].msg = handlers["h2"].msg
    /\ handlers["h1"].seq < handlers["h2"].seq
    /\ OnlyProvidersFailed
    /\ \E i \in DOMAIN messages, j \in DOMAIN messages :
          /\ Len(OldMessages) < i
          /\ i < j
          /\ messages[i].origin = SENTIMENT
          /\ messages[j].origin = "notice"
    /\ messages[handlers["h1"].msg].text = dispatched[handlers["h1"].chat]
    /\ messages[handlers["h1"].msg].kb = KB_MAIN

\* C21: query.answer() is the first call of every invocation, whatever the
\* callback data and whether or not the chat has a session: the step that
\* takes a press reads no session and changes no message, the session is
\* read only when the answer completes, an invocation whose answer is
\* pending changes no message, and one whose answer fails reads nothing.
C21Thm ==
    [][\A h \in HandlerIds :
          Steps(h)
          => /\ handlers[h].pc \in {"idle", "done"}
                => /\ handlers'[h].pc = "answer"
                   /\ handlers'[h].user_state = EmptyDict
                   /\ ~handlers'[h].session_found
                   /\ messages' = messages
             /\ handlers[h].pc = "answer"
                => /\ messages' = messages
                   /\ handlers'[h].outcome = "raised"
                      => /\ handlers'[h].user_state = EmptyDict
                         /\ ~handlers'[h].session_found
             /\ handlers'[h].pc \notin {"idle", "answer", "done"}
                => handlers[h].pc \notin {"idle", "done"}
             /\ messages' # messages
                => handlers[h].pc \notin {"idle", "answer", "done"}]_vars

C21Witness ==
    \E h \in HandlerIds :
        /\ handlers[h].pc = "done"
        /\ handlers[h].data = OTHER_DATA
        /\ handlers[h].outcome = "silent"
        /\ ~handlers[h].session_found
        /\ handlers[h].chat \notin DOMAIN user_states

\* C22: POST /calculate-rr with neither risk_pips nor risk_points answers
\* 400 and computes no levels, and it answers 500 only where
\* calculate_rr_levels returned no result.
C22Claim ==
    calc.pc = "done"
    => /\ (calc.risk_pips = None /\ calc.risk_points = None)
          => /\ calc.response.status = 400
             /\ calc.response.levels = None
       /\ calc.response.status = 500
          => calculate_rr_levels(calc.instrument, Float(calc.entry_price),
                                 calc.direction, OptFloat(calc.risk_pips),
                                 OptFloat(calc.risk_points)) = None

\* signal_data without its formatted_message
Unformatted(signal_data) ==
    [k \in DOMAIN signal_data \ {"formatted_message"} |-> signal_data[k]]

\* C23: the text send_signal stores and sends is never empty: a non-empty
\* formatted_message is used as it is, and otherwise (key absent, or empty
\* string) the text is the rendered template of the signal.
C23Claim ==
    /\ \A c \in DOMAIN user_states : user_states[c]["original_message"] # ""
    /\ \A s \in DispIds :
          disp[s].pc = "send"
          => disp[s].message =
                IF DictGet(disp[s].signal_data, "formatted_message", "") # ""
                THEN disp[s].signal_data["formatted_message"]
                ELSE format_signal_message(Unformatted(disp[s].signal_data))

====
